---------------------------- MODULE Spec2Model ----------------------------
(***************************************************************************)
(* A model of job_search_agent.py: the Greenhouse and Lever fetch loops,   *)
(* the two title predicates (_matches_strict, _matches_wide), the merge of *)
(* search_all and the grouping of _render_jobs.                            *)
(*                                                                         *)
(* Strings are TLA+ strings; Len, SubSeq and \o act on them character by   *)
(* character, so str.lower(), str.upper(), str.title() and the substring   *)
(* test `kw in title_lower` are computed, not assumed.                     *)
(***************************************************************************)
EXTENDS Integers, Sequences, FiniteSets, TLC

VARIABLES
    pc,         \* where the run is: "greenhouse", "lever", "merge", "report", "done",
                \* or "classify" / "classified" for a single call of the predicates
    gi,         \* index of the next company of greenhouse_companies
    li,         \* index of the next company of lever_companies
    ghJobs,     \* `jobs` of search_greenhouse_jobs
    lvJobs,     \* `jobs` of search_lever_jobs
    requests,   \* the GET calls issued so far, <<source, company>>, in order
    paused,     \* tenths of a time unit slept since the last GET returned or raised
    lastResp,   \* `response` of the running fetch loop: what its last GET got
    lastLog,    \* what the running fetch loop printed for its last company
    lastAdded,  \* what the running fetch loop appended to `jobs` for its last company
    budget,     \* postings the two APIs may still deliver in this run (0 once both loops returned)
    all_jobs,   \* `all_jobs` of search_all
    seen,       \* `seen` of search_all: an insertion-ordered mapping
    mi,         \* index into all_jobs of the next posting to merge
    replaced,   \* how many times line 287 (the replace branch) has run
    results,    \* self.results
    report,     \* what generate_report renders
    cTitle,     \* the argument of a single call of the predicates
    cStrict,    \* the value _matches_strict returned for cTitle
    cWide       \* the value _matches_wide returned for cTitle

vars == <<pc, gi, li, ghJobs, lvJobs, requests, paused, lastResp, lastLog, lastAdded, budget,
          all_jobs, seen, mi, replaced, results, report, cTitle, cStrict, cWide>>

-----------------------------------------------------------------------------
(* Bounds of the model. *)

\* Words of a title drawn for a single call of the predicates.
MaxWords == 3
\* Postings the two APIs deliver in one run, over all companies.
MaxTotalPosts == 2
\* Length of the posting list handed to the merge when it is checked alone.
MaxJobs == 3

-----------------------------------------------------------------------------
(* JSON values as the two APIs return them, and dict.get. *)

Str(s) == [t |-> "str", v |-> s]
Num(n) == [t |-> "num", v |-> n]
Obj(f) == [t |-> "obj", v |-> f]
Null == [t |-> "null"]

\* The empty dict {}.
EmptyDict == [k \in {} |-> Null]

\* d.get(key, default) on a dict d.
Get(d, key, default) == IF key \in DOMAIN d THEN d[key] ELSE default

\* `not x` for a JSON value: None, "", 0 and {} are falsy.
Falsy(x) ==
    \/ x.t = "null"
    \/ x.t = "str" /\ x.v = ""
    \/ x.t = "num" /\ x.v = 0
    \/ x.t = "obj" /\ DOMAIN x.v = {}

-----------------------------------------------------------------------------
(* What the two APIs may answer. *)

\* Greenhouse postings: a title matching both predicates, the same title in
\* another case, a wide-only title, a strict-only title, a title matching
\* neither, and postings whose title is missing, empty or a number.
GreenhousePool ==
    { [title |-> Str("AI UX Designer"), location |-> Obj([name |-> Str("Remote")]),
       absolute_url |-> Str("g/1"), updated_at |-> Str("Recent")],
      [title |-> Str("ai ux designer"), absolute_url |-> Str("g/2")],
      [title |-> Str("AI Product Manager"), location |-> Null, absolute_url |-> Str("g/3")],
      [title |-> Str("Prompt Engineer"), absolute_url |-> Str("g/4")],
      [title |-> Str("UX Designer"), absolute_url |-> Str("g/5")],
      [absolute_url |-> Str("g/6")],
      [title |-> Str(""), absolute_url |-> Str("g/7")],
      [title |-> Num(42), absolute_url |-> Str("g/9")] }

LeverPool ==
    { [text |-> Str("AI UX Designer"),
       categories |-> Obj([location |-> Str("Remote"), commitment |-> Str("Full-time")]),
       hostedUrl |-> Str("l/1")],
      [text |-> Str("ai ux designer"), hostedUrl |-> Str("l/2")],
      [text |-> Str("AI Product Manager"), categories |-> Null, hostedUrl |-> Str("l/3")],
      [text |-> Str("Prompt Engineer"), hostedUrl |-> Str("l/4")],
      [text |-> Str("UX Designer"), hostedUrl |-> Str("l/5")],
      [hostedUrl |-> Str("l/6")],
      [text |-> Str(""), hostedUrl |-> Str("l/7")],
      [text |-> Num(42), hostedUrl |-> Str("l/9")] }

\* The titles the pools carry.
PoolTitles ==
    { p.title.v : p \in { q \in GreenhousePool : "title" \in DOMAIN q /\ q.title.t = "str" } }
        \cup { p.text.v : p \in { q \in LeverPool : "text" \in DOMAIN q /\ q.text.t = "str" } }

\* The titles of the postings handed to the merge when it is checked alone.
MergeTitles == {"AI Writer", "ai writer", "Prompt Engineer"}

-----------------------------------------------------------------------------
(* The configured companies. *)

greenhouse_companies ==
    <<"anthropic", "figma", "canva", "discord", "airtable", "reddit", "facebook">>

lever_companies == <<"shopify", "grammarly", "retool", "plaid">>

-----------------------------------------------------------------------------
(* Python's str methods. *)

UpperAlpha == "ABCDEFGHIJKLMNOPQRSTUVWXYZ"
LowerAlpha == "abcdefghijklmnopqrstuvwxyz"

CharAt(s, i) == SubSeq(s, i, i)

UpperChars == { CharAt(UpperAlpha, i) : i \in 1..26 }
LowerChars == { CharAt(LowerAlpha, i) : i \in 1..26 }

\* Position of a letter in the alphabet, whatever its case.
LetterIndex ==
    [c \in UpperChars \cup LowerChars |->
        CHOOSE i \in 1..26 : CharAt(UpperAlpha, i) = c \/ CharAt(LowerAlpha, i) = c]

IsUpperChar(c) == c \in UpperChars
IsLowerChar(c) == c \in LowerChars
IsLetter(c) == IsUpperChar(c) \/ IsLowerChar(c)

LowerChar(c) == IF IsUpperChar(c) THEN CharAt(LowerAlpha, LetterIndex[c]) ELSE c

UpperChar(c) == IF IsLowerChar(c) THEN CharAt(UpperAlpha, LetterIndex[c]) ELSE c

\* str.lower() from character i on.
RECURSIVE LowerFrom(_, _)
LowerFrom(s, i) == IF i > Len(s) THEN "" ELSE LowerChar(CharAt(s, i)) \o LowerFrom(s, i + 1)

\* str.upper() from character i on.
RECURSIVE UpperFrom(_, _)
UpperFrom(s, i) == IF i > Len(s) THEN "" ELSE UpperChar(CharAt(s, i)) \o UpperFrom(s, i + 1)

upper(s) == UpperFrom(s, 1)

\* str.title(): a letter that follows a non-letter (or starts the string) is
\* upper-cased, every other letter is lower-cased.
RECURSIVE TitleFrom(_, _, _)
TitleFrom(s, i, prevLetter) ==
    IF i > Len(s) THEN ""
    ELSE LET c == CharAt(s, i)
         IN (IF prevLetter THEN LowerChar(c) ELSE UpperChar(c))
                \o TitleFrom(s, i + 1, IsLetter(c))

title(s) == TitleFrom(s, 1, FALSE)

\* The strings a run lower-cases over and over: the titles of the pools and
\* the display names of the configured companies. Their lower-case forms are
\* computed once.
KnownStrings ==
    PoolTitles \cup MergeTitles
        \cup { title(greenhouse_companies[i]) : i \in 1..Len(greenhouse_companies) }
        \cup { title(lever_companies[i]) : i \in 1..Len(lever_companies) }

LowerTable == [s \in KnownStrings |-> LowerFrom(s, 1)]

\* str.lower()
lower(s) == IF s \in KnownStrings THEN LowerTable[s] ELSE LowerFrom(s, 1)

\* `kw in s` for two strings.
Contains(kw, s) ==
    \E i \in 1..(Len(s) - Len(kw) + 1) : SubSeq(s, i, i + Len(kw) - 1) = kw

\* any(kw in s for kw in kws)
AnyIn(kws, s) == \E i \in 1..Len(kws) : Contains(kws[i], s)

\* Code point of an ASCII character the model uses: space, hyphen, digits are
\* not ordered among themselves here because no company name holds them.
Ord(c) ==
    IF IsUpperChar(c) THEN 64 + LetterIndex[c]
    ELSE IF IsLowerChar(c) THEN 96 + LetterIndex[c]
    ELSE 32

\* a < b for two Python strings (code point order, a proper prefix is smaller).
RECURSIVE StrLess(_, _)
StrLess(a, b) ==
    IF b = "" THEN FALSE
    ELSE IF a = "" THEN TRUE
    ELSE IF Ord(CharAt(a, 1)) # Ord(CharAt(b, 1)) THEN Ord(CharAt(a, 1)) < Ord(CharAt(b, 1))
    ELSE StrLess(SubSeq(a, 2, Len(a)), SubSeq(b, 2, Len(b)))

-----------------------------------------------------------------------------
(* The filters. *)

ai_keywords ==
    <<"ai", "artificial intelligence", "ml", "machine learning", "llm", "gpt", "claude">>

function_keywords ==
    <<"prompt engineer", "content engineer", "ai content", "ai writer",
      "content strategist", "ux", "user experience", "product design",
      "interaction design">>

\* The list literal of line 187.
gated_keywords == <<"ux", "user experience", "product design", "interaction design">>

InList(x, lst) == \E i \in 1..Len(lst) : lst[i] = x

\* StrictFrom without the AI co-requirement of line 188.
RECURSIVE StrictFromUngated(_, _)
StrictFromUngated(title_lower, k) ==
    IF k > Len(function_keywords) THEN FALSE
    ELSE IF Contains(function_keywords[k], title_lower) THEN TRUE
    ELSE StrictFromUngated(title_lower, k + 1)

\* The for loop of _matches_strict from keyword k on: the first keyword found
\* in the title decides.
RECURSIVE StrictFrom(_, _)
StrictFrom(title_lower, k) ==
    IF k > Len(function_keywords) THEN FALSE
    ELSE LET kw == function_keywords[k]
         IN IF Contains(kw, title_lower)
            THEN IF InList(kw, gated_keywords)
                 THEN AnyIn(ai_keywords, title_lower)
                 ELSE TRUE
            ELSE StrictFrom(title_lower, k + 1)

\* _matches_strict without title.lower().
MatchesStrictCased(t) == StrictFrom(t, 1)

_matches_strict(t) == StrictFrom(lower(t), 1)

wide_keywords ==
    <<"ai", "artificial intelligence", "ml", "machine learning", "llm", "gpt",
      "genai", "generative ai">>

role_anchor_keywords ==
    <<"product", "manager", "pm", "platform", "tooling", "integration",
      "integrations", "solutions", "solution", "architect", "architecture",
      "experience", "developer", "content", "documentation", "design",
      "designer", "ux", "collaboration", "human-ai">>

exclude_terms ==
    <<"fraud", "ads", "ranking", "relevance", "recommendation", "infra",
      "infrastructure", "risk", "security", "platform security",
      "ml feature platform", "feature platform", "acceleration">>

\* _matches_wide without the exclusion test of lines 249-250.
MatchesWideNoExclusion(t) ==
    LET title_lower == lower(t)
    IN AnyIn(wide_keywords, title_lower) /\ AnyIn(role_anchor_keywords, title_lower)

_matches_wide(t) ==
    LET title_lower == lower(t)
    IN IF ~AnyIn(wide_keywords, title_lower) THEN FALSE
       ELSE IF ~AnyIn(role_anchor_keywords, title_lower) THEN FALSE
       ELSE IF AnyIn(exclude_terms, title_lower) THEN FALSE
       ELSE TRUE

-----------------------------------------------------------------------------
(* The answers to one GET. *)

\* Every list of at most n postings of a pool.
PostLists(pool, n) == UNION { [1..k -> pool] : k \in 0..n }

\* The outcomes of one GET: requests.get raises (timeout, DNS, reset), a
\* status other than 200, a 200 whose body is not JSON, a 200 with postings.
Responses(pool, n) ==
    { [kind |-> "fault"], [kind |-> "status"], [kind |-> "badjson"] }
        \cup { [kind |-> "ok", posts |-> ps] : ps \in PostLists(pool, n) }

NoResponse == [kind |-> "none"]

\* Lines 76-77 and 138-139 on the pools' titles, evaluated once.
ClassTable ==
    [t \in PoolTitles |-> [strict |-> _matches_strict(t), wide |-> _matches_wide(t)]]

\* strict = self._matches_strict(title); wide = self._matches_wide(title)
Classify(t) ==
    IF t \in PoolTitles THEN ClassTable[t]
    ELSE [strict |-> _matches_strict(t), wide |-> _matches_wide(t)]

-----------------------------------------------------------------------------
(* The two fetch loops. *)

\* time.sleep(1.5), in tenths of a time unit.
SleepTenths == 15

\* The tier with the two predicates taken in the other order.
TierWideFirst(strict, wide) == IF wide THEN "wide" ELSE "strict"

\* tier of the record built at lines 85-93 and 149-158.
TierOf(strict, wide) == IF strict THEN "strict" ELSE "wide"

\* A loop that asks the same company again.
LoopRetry(i) == i

\* `for company in ...`: the try statement is inside the loop body, so after
\* an iteration that returned, continued or raised, the loop takes the next
\* company.
LoopAdvance(i) == i + 1

\* The body of `for job in job_posts` of search_greenhouse_jobs from posting k
\* on. jobs: what the loop appends; raised: an exception left the loop (the
\* postings after the raising one are not looked at).
RECURSIVE GreenhousePosts(_, _, _)
GreenhousePosts(job_posts, company, k) ==
    IF k > Len(job_posts) THEN [jobs |-> <<>>, raised |-> FALSE]
    ELSE
      LET job == job_posts[k]
          t == Get(job, "title", Str(""))
      IN IF Falsy(t) THEN GreenhousePosts(job_posts, company, k + 1)
         \* title.lower() on a value that is no str raises AttributeError
         ELSE IF t.t # "str" THEN [jobs |-> <<>>, raised |-> TRUE]
         ELSE
           LET strict == Classify(t.v).strict
               wide == Classify(t.v).wide
               loc == Get(job, "location", Null)
           IN IF ~strict /\ ~wide THEN GreenhousePosts(job_posts, company, k + 1)
              \* (job.get("location") or {}).get(...) on a str or a number raises
              ELSE IF ~Falsy(loc) /\ loc.t # "obj" THEN [jobs |-> <<>>, raised |-> TRUE]
              ELSE
                LET rest == GreenhousePosts(job_posts, company, k + 1)
                    rec == [title |-> t.v,
                            company |-> title(company),
                            location |-> Get(IF Falsy(loc) THEN EmptyDict ELSE loc.v,
                                             "name", Str("Not specified")),
                            url |-> Get(job, "absolute_url", Str("")),
                            source |-> "Greenhouse",
                            posted_date |-> Get(job, "updated_at", Str("Recent")),
                            tier |-> TierOf(strict, wide)]
                IN [jobs |-> <<rec>> \o rest.jobs, raised |-> rest.raised]

\* The body of `for job in job_posts` of search_lever_jobs from posting k on.
RECURSIVE LeverPosts(_, _, _)
LeverPosts(job_posts, company, k) ==
    IF k > Len(job_posts) THEN [jobs |-> <<>>, raised |-> FALSE]
    ELSE
      LET job == job_posts[k]
          t == Get(job, "text", Str(""))
      IN IF Falsy(t) THEN LeverPosts(job_posts, company, k + 1)
         ELSE IF t.t # "str" THEN [jobs |-> <<>>, raised |-> TRUE]
         ELSE
           LET strict == Classify(t.v).strict
               wide == Classify(t.v).wide
               cat == Get(job, "categories", Obj(EmptyDict))
           IN IF ~strict /\ ~wide THEN LeverPosts(job_posts, company, k + 1)
              ELSE IF ~Falsy(cat) /\ cat.t # "obj" THEN [jobs |-> <<>>, raised |-> TRUE]
              ELSE
                LET rest == LeverPosts(job_posts, company, k + 1)
                    categories == IF Falsy(cat) THEN EmptyDict ELSE cat.v
                    rec == [title |-> t.v,
                            company |-> title(company),
                            location |-> Get(categories, "location", Str("Not specified")),
                            type |-> Get(categories, "commitment", Str("")),
                            url |-> Get(job, "hostedUrl", Str("")),
                            source |-> "Lever",
                            posted_date |-> Get(job, "createdAt", Str("Recent")),
                            tier |-> TierOf(strict, wide)]
                IN [jobs |-> <<rec>> \o rest.jobs, raised |-> rest.raised]

\* What one iteration of a fetch loop does with the response `resp` to the GET
\* for `company`; posts is GreenhousePosts or LeverPosts applied to the body.
\*   added:  the postings appended to `jobs`
\*   log:    what is printed after "Fetching"
\*   slept:  tenths of a time unit slept before the next iteration
Iteration(resp, done) ==
    CASE resp.kind = "fault" ->
            \* requests.get raised: the except clause prints and the loop goes on
            [added |-> <<>>, log |-> <<"error">>, slept |-> 0]
      [] resp.kind = "status" ->
            \* status_code != 200: print the body prefix, continue
            [added |-> <<>>, log |-> <<"status", "body">>, slept |-> 0]
      [] resp.kind = "badjson" ->
            \* response.json() raised
            [added |-> <<>>, log |-> <<"status", "error">>, slept |-> 0]
      [] resp.kind = "ok" ->
            IF done.raised
            THEN [added |-> done.jobs, log |-> <<"status", "listed", "error">>, slept |-> 0]
            ELSE [added |-> done.jobs,
                  log |-> IF Len(done.jobs) > 0 THEN <<"status", "listed", "found">>
                          ELSE <<"status", "listed">>,
                  slept |-> SleepTenths]

-----------------------------------------------------------------------------
(* search_all: the merge. *)

\* The key without the lower-casing.
DedupKeyCased(job) == <<job.title, job.company>>

\* key = (job["title"].lower(), job["company"].lower())
DedupKey(job) == <<lower(job.title), lower(job.company)>>

\* Position of `key` in the insertion-ordered mapping m, 0 when absent.
KeyIndex(m, key) ==
    IF \E i \in 1..Len(m) : m[i].key = key
    THEN CHOOSE i \in 1..Len(m) : m[i].key = key
    ELSE 0

\* seen[key] = job: a new key goes to the end, a key that is present keeps its
\* place (Python dicts keep the order of first insertion).
DictSet(m, key, job) ==
    LET i == KeyIndex(m, key)
    IN IF i = 0 THEN Append(m, [key |-> key, job |-> job])
       ELSE [m EXCEPT ![i] = [key |-> key, job |-> job]]

\* The condition with the two tiers exchanged.
ShouldReplaceWide(existing, job) == existing.tier = "strict" /\ job.tier = "wide"

\* The condition of line 286.
ShouldReplace(existing, job) == existing.tier = "wide" /\ job.tier = "strict"

\* One pass of the body of `for job in all_jobs` (lines 282-287).
MergeOne(m, job) ==
    LET key == DedupKey(job)
        i == KeyIndex(m, key)
    IN IF i = 0 THEN DictSet(m, key, job)
       ELSE IF ShouldReplace(m[i].job, job) THEN DictSet(m, key, job)
       ELSE m

\* list(seen.values())
Values(m) == [i \in 1..Len(m) |-> m[i].job]

-----------------------------------------------------------------------------
(* generate_report and _render_jobs. *)

RECURSIVE Filter(_, _, _)
\* [j for j in jobs if j.get("tier") == tier], from index k on
Filter(jobs, tier, k) ==
    IF k > Len(jobs) THEN <<>>
    ELSE (IF jobs[k].tier = tier THEN <<jobs[k]>> ELSE <<>>) \o Filter(jobs, tier, k + 1)

\* grouped[company]: the postings of one company, in the order of job_list.
RECURSIVE GroupOf(_, _, _)
GroupOf(job_list, company, k) ==
    IF k > Len(job_list) THEN <<>>
    ELSE (IF job_list[k].company = company THEN <<job_list[k]>> ELSE <<>>)
            \o GroupOf(job_list, company, k + 1)

\* sorted(...) over a set of distinct strings.
RECURSIVE SortedStrings(_)
SortedStrings(S) ==
    IF S = {} THEN <<>>
    ELSE LET least == CHOOSE a \in S : \A b \in S \ {a} : StrLess(a, b)
         IN <<least>> \o SortedStrings(S \ {least})

\* _format_date for the values the model's postings carry: None and "" give
\* "", the sentinel "Recent" passes through, another str that does not parse
\* as a date is shown as given.
_format_date(d) == IF d.t = "null" THEN "" ELSE d.v

\* The lines of one posting (lines 327-335).
JobLines(j) ==
    <<[line |-> "title", text |-> j.title], [line |-> "location", text |-> j.location]>>
    \o (IF "type" \in DOMAIN j /\ ~Falsy(j.type)
        THEN <<[line |-> "type", text |-> j.type]>> ELSE <<>>)
    \o (IF _format_date(j.posted_date) # ""
        THEN <<[line |-> "posted", text |-> _format_date(j.posted_date)]>> ELSE <<>>)
    \o <<[line |-> "apply", text |-> j.url]>>

RECURSIVE LinesOf(_, _)
LinesOf(lst, k) == IF k > Len(lst) THEN <<>> ELSE JobLines(lst[k]) \o LinesOf(lst, k + 1)

RECURSIVE GroupLines(_, _, _)
GroupLines(job_list, order, k) ==
    IF k > Len(order) THEN <<>>
    ELSE <<[line |-> "company", text |-> upper(order[k])]>>
            \o LinesOf(GroupOf(job_list, order[k], 1), 1)
            \o GroupLines(job_list, order, k + 1)

\* The companies of job_list in the order of their first posting, from k on.
RECURSIVE FirstSeenOrder(_, _, _)
FirstSeenOrder(job_list, k, have) ==
    IF k > Len(job_list) THEN <<>>
    ELSE IF job_list[k].company \in have THEN FirstSeenOrder(job_list, k + 1, have)
    ELSE <<job_list[k].company>>
            \o FirstSeenOrder(job_list, k + 1, have \cup {job_list[k].company})

\* The groups walked as grouped.items() gives them, without sorted().
GroupOrderUnsorted(job_list) == FirstSeenOrder(job_list, 1, {})

\* The order in which _render_jobs walks the company groups.
GroupOrder(job_list) ==
    SortedStrings({job_list[k].company : k \in 1..Len(job_list)})

_render_jobs(job_list) ==
    IF job_list = <<>> THEN <<[line |-> "none", text |-> "No roles found."]>>
    ELSE GroupLines(job_list, GroupOrder(job_list), 1)

generate_report(jobs) ==
    LET strict_jobs == Filter(jobs, "strict", 1)
        wide_jobs == Filter(jobs, "wide", 1)
    IN [nstrict |-> Len(strict_jobs),
        nwide |-> Len(wide_jobs),
        total |-> Len(jobs),
        strict |-> _render_jobs(strict_jobs),
        wide |-> _render_jobs(wide_jobs)]

NoReport == [nstrict |-> 0, nwide |-> 0, total |-> 0, strict |-> <<>>, wide |-> <<>>]

-----------------------------------------------------------------------------
(* The run: main() calls search_all, then generate_report. *)

Init ==
    /\ pc = "greenhouse"
    /\ gi = 1
    /\ li = 1
    /\ ghJobs = <<>>
    /\ lvJobs = <<>>
    /\ requests = <<>>
    /\ paused = 0
    /\ lastResp = NoResponse
    /\ lastLog = <<>>
    /\ lastAdded = <<>>
    /\ budget = MaxTotalPosts
    /\ all_jobs = <<>>
    /\ seen = <<>>
    /\ mi = 1
    /\ replaced = 0
    /\ results = <<>>
    /\ report = NoReport
    /\ cTitle = ""
    /\ cStrict = FALSE
    /\ cWide = FALSE

\* One iteration of `for company in greenhouse_companies` (lines 50-102).
GreenhouseFetch ==
    /\ pc = "greenhouse"
    /\ gi <= Len(greenhouse_companies)
    /\ \E resp \in Responses(GreenhousePool, budget) :
         LET company == greenhouse_companies[gi]
             done == IF resp.kind = "ok" THEN GreenhousePosts(resp.posts, company, 1)
                     ELSE [jobs |-> <<>>, raised |-> FALSE]
             it == Iteration(resp, done)
         IN /\ requests' = Append(requests, <<"Greenhouse", company>>)
            /\ ghJobs' = ghJobs \o it.added
            /\ lastResp' = resp
            /\ lastLog' = it.log
            /\ lastAdded' = it.added
            /\ paused' = it.slept
            /\ budget' = IF resp.kind = "ok" THEN budget - Len(resp.posts) ELSE budget
    /\ gi' = LoopAdvance(gi)
    /\ UNCHANGED <<pc, li, lvJobs, all_jobs, seen, mi, replaced, results, report,
                   cTitle, cStrict, cWide>>

\* `return jobs` of search_greenhouse_jobs; search_lever_jobs starts.
GreenhouseReturn ==
    /\ pc = "greenhouse"
    /\ gi > Len(greenhouse_companies)
    /\ pc' = "lever"
    /\ lastResp' = NoResponse
    /\ lastLog' = <<>>
    /\ lastAdded' = <<>>
    /\ UNCHANGED <<gi, li, ghJobs, lvJobs, requests, paused, budget,
                   all_jobs, seen, mi, replaced, results, report, cTitle, cStrict, cWide>>

\* One iteration of `for company in lever_companies` (lines 113-166).
LeverFetch ==
    /\ pc = "lever"
    /\ li <= Len(lever_companies)
    /\ \E resp \in Responses(LeverPool, budget) :
         LET company == lever_companies[li]
             done == IF resp.kind = "ok" THEN LeverPosts(resp.posts, company, 1)
                     ELSE [jobs |-> <<>>, raised |-> FALSE]
             it == Iteration(resp, done)
         IN /\ requests' = Append(requests, <<"Lever", company>>)
            /\ lvJobs' = lvJobs \o it.added
            /\ lastResp' = resp
            /\ lastLog' = it.log
            /\ lastAdded' = it.added
            /\ paused' = it.slept
            /\ budget' = IF resp.kind = "ok" THEN budget - Len(resp.posts) ELSE budget
    /\ li' = LoopAdvance(li)
    /\ UNCHANGED <<pc, gi, ghJobs, all_jobs, seen, mi, replaced, results, report,
                   cTitle, cStrict, cWide>>

\* `return jobs` of search_lever_jobs and line 278.
LeverReturn ==
    /\ pc = "lever"
    /\ li > Len(lever_companies)
    /\ all_jobs' = ghJobs \o lvJobs
    /\ pc' = "merge"
    /\ lastResp' = NoResponse
    /\ lastLog' = <<>>
    /\ lastAdded' = <<>>
    /\ budget' = 0
    /\ UNCHANGED <<gi, li, ghJobs, lvJobs, requests, paused,
                   seen, mi, replaced, results, report, cTitle, cStrict, cWide>>

\* One pass of the body of `for job in all_jobs` (lines 281-287).
MergeStep ==
    /\ pc = "merge"
    /\ mi <= Len(all_jobs)
    /\ LET job == all_jobs[mi]
           i == KeyIndex(seen, DedupKey(job))
       IN /\ seen' = MergeOne(seen, job)
          /\ replaced' = IF i # 0 /\ ShouldReplace(seen[i].job, job) THEN replaced + 1
                         ELSE replaced
    /\ mi' = mi + 1
    /\ UNCHANGED <<pc, gi, li, ghJobs, lvJobs, requests, paused, lastResp, lastLog, lastAdded,
                   budget, all_jobs, results, report, cTitle, cStrict, cWide>>

\* Lines 289-290.
MergeFinish ==
    /\ pc = "merge"
    /\ mi > Len(all_jobs)
    /\ results' = Values(seen)
    /\ pc' = "report"
    /\ UNCHANGED <<gi, li, ghJobs, lvJobs, requests, paused, lastResp, lastLog, lastAdded,
                   budget, all_jobs, seen, mi, replaced, report, cTitle, cStrict, cWide>>

\* agent.generate_report(jobs) of main().
GenerateReport ==
    /\ pc = "report"
    /\ report' = generate_report(results)
    /\ pc' = "done"
    /\ UNCHANGED <<gi, li, ghJobs, lvJobs, requests, paused, lastResp, lastLog, lastAdded,
                   budget, all_jobs, seen, mi, replaced, results, cTitle, cStrict, cWide>>

Next ==
    \/ GreenhouseFetch
    \/ GreenhouseReturn
    \/ LeverFetch
    \/ LeverReturn
    \/ MergeStep
    \/ MergeFinish
    \/ GenerateReport

Spec == Init /\ [][Next]_vars

-----------------------------------------------------------------------------
(* A single call of the two predicates on a title, as lines 76-77 make it. *)

\* Words and phrases titles are made of. "html" holds "ml" and "leads" holds
\* "ads": the predicates test substrings, not words.
Vocabulary ==
    <<"ux", "ai", "prompt engineer", "content strategist", "machine learning",
      "platform", "infra", "designer", "leads", "html", "claude">>

\* " ".join(words)
RECURSIVE Join(_, _)
Join(words, k) ==
    IF k > Len(words) THEN ""
    ELSE IF k = Len(words) THEN Vocabulary[words[k]]
    ELSE Vocabulary[words[k]] \o " " \o Join(words, k + 1)

\* Titles of at most n vocabulary entries, in lower case and in title case.
Titles(n) ==
    LET lowers == { Join(ws, 1) : ws \in UNION { [1..k -> 1..Len(Vocabulary)] : k \in 1..n } }
    IN lowers \cup { title(t) : t \in lowers }

InitClassify ==
    /\ pc = "classify"
    /\ cTitle \in Titles(MaxWords)
    /\ cStrict = FALSE
    /\ cWide = FALSE
    /\ gi = 1
    /\ li = 1
    /\ ghJobs = <<>>
    /\ lvJobs = <<>>
    /\ requests = <<>>
    /\ paused = 0
    /\ lastResp = NoResponse
    /\ lastLog = <<>>
    /\ lastAdded = <<>>
    /\ budget = 0
    /\ all_jobs = <<>>
    /\ seen = <<>>
    /\ mi = 1
    /\ replaced = 0
    /\ results = <<>>
    /\ report = NoReport

\* strict = self._matches_strict(title)
CallMatchesStrict ==
    /\ pc = "classify"
    /\ cStrict' = _matches_strict(cTitle)
    /\ pc' = "classify_wide"
    /\ UNCHANGED <<gi, li, ghJobs, lvJobs, requests, paused, lastResp, lastLog, lastAdded,
                   budget, all_jobs, seen, mi, replaced, results, report, cTitle, cWide>>

\* wide = self._matches_wide(title)
CallMatchesWide ==
    /\ pc = "classify_wide"
    /\ cWide' = _matches_wide(cTitle)
    /\ pc' = "classified"
    /\ UNCHANGED <<gi, li, ghJobs, lvJobs, requests, paused, lastResp, lastLog, lastAdded,
                   budget, all_jobs, seen, mi, replaced, results, report, cTitle, cStrict>>

NextClassify == CallMatchesStrict \/ CallMatchesWide

ClassifySpec == InitClassify /\ [][NextClassify]_vars

-----------------------------------------------------------------------------
(* The merge and the report on any list of classified postings. *)

\* A posting record as search_greenhouse_jobs builds it.
MkJob(t, company, tier) ==
    [title |-> t, company |-> title(company), location |-> Str("Not specified"),
     url |-> Str(""), source |-> "Greenhouse", posted_date |-> Str("Recent"),
     tier |-> tier]

MergePool ==
    { MkJob(t, c, tier) : t \in MergeTitles,
                          c \in {"figma", "canva"},
                          tier \in {"strict", "wide"} }

InitMerge ==
    /\ pc = "merge"
    /\ all_jobs \in PostLists(MergePool, MaxJobs)
    /\ seen = <<>>
    /\ mi = 1
    /\ replaced = 0
    /\ results = <<>>
    /\ report = NoReport
    /\ gi = Len(greenhouse_companies) + 1
    /\ li = Len(lever_companies) + 1
    /\ ghJobs = <<>>
    /\ lvJobs = <<>>
    /\ requests = <<>>
    /\ paused = 0
    /\ lastResp = NoResponse
    /\ lastLog = <<>>
    /\ lastAdded = <<>>
    /\ budget = 0
    /\ cTitle = ""
    /\ cStrict = FALSE
    /\ cWide = FALSE

NextMerge == MergeStep \/ MergeFinish \/ GenerateReport

MergeSpec == InitMerge /\ [][NextMerge]_vars

-----------------------------------------------------------------------------
(* The claims about the predicates, under ClassifySpec. *)

StrictReturned == pc \in {"classify_wide", "classified"}
WideReturned == pc = "classified"

\* The AI indicator substrings claim C4 lists.
C4_Indicators ==
    {"ai", "artificial intelligence", "ml", "machine learning", "llm", "gpt", "claude"}

HasAny(S, s) == \E kw \in S : Contains(kw, s)

\* C4 as stated: a title that contains "ux" in any case and none of the AI
\* indicator substrings is never strict, whatever else it contains.
C4_UxWithoutAiIsNotStrict ==
    (StrictReturned /\ Contains("ux", lower(cTitle)) /\ ~HasAny(C4_Indicators, lower(cTitle)))
        => cStrict = FALSE

\* The function keywords that _matches_strict accepts on their own and that
\* hold no AI indicator themselves.
C4_Unconditional == {"prompt engineer", "content engineer", "content strategist"}

\* C4 amended: a title that contains "ux" in any case, none of the AI indicator
\* substrings and none of the function keywords accepted on their own is not
\* strict.
C4_UxAloneIsNotStrict ==
    (/\ StrictReturned
     /\ Contains("ux", lower(cTitle))
     /\ ~HasAny(C4_Indicators, lower(cTitle))
     /\ ~HasAny(C4_Unconditional, lower(cTitle)))
        => cStrict = FALSE

\* A title in mixed case with "ux", another word and no AI indicator was
\* classified and is not strict.
C4_Witness ==
    /\ StrictReturned
    /\ cTitle # lower(cTitle)
    /\ Contains("ux", lower(cTitle))
    /\ Contains("designer", lower(cTitle))
    /\ ~HasAny(C4_Indicators, lower(cTitle))
    /\ ~HasAny(C4_Unconditional, lower(cTitle))
    /\ cStrict = FALSE

\* The three substring lists claim C5 speaks of.
C5_Indicators ==
    {"ai", "artificial intelligence", "ml", "machine learning", "llm", "gpt", "genai",
     "generative ai"}
C5_Anchors ==
    {"product", "manager", "pm", "platform", "tooling", "integration", "integrations",
     "solutions", "solution", "architect", "architecture", "experience", "developer",
     "content", "documentation", "design", "designer", "ux", "collaboration", "human-ai"}
C5_Exclusions ==
    {"fraud", "ads", "ranking", "relevance", "recommendation", "infra", "infrastructure",
     "risk", "security", "platform security", "ml feature platform", "feature platform",
     "acceleration"}

\* C5: a title is wide exactly when its lower-cased form holds an AI/ML
\* indicator and a role anchor and no exclusion term; so "machine learning"
\* with "platform" and no exclusion term is wide, and "machine learning" with
\* "infra" is not wide whatever anchors are there.
C5_WideIffIndicatorAnchorNoExclusion ==
    WideReturned =>
        LET tl == lower(cTitle)
        IN /\ cWide <=> (/\ HasAny(C5_Indicators, tl)
                         /\ HasAny(C5_Anchors, tl)
                         /\ ~HasAny(C5_Exclusions, tl))
           /\ (/\ Contains("machine learning", tl)
               /\ Contains("platform", tl)
               /\ ~HasAny(C5_Exclusions, tl)) => cWide = TRUE
           /\ (Contains("machine learning", tl) /\ Contains("infra", tl)) => cWide = FALSE

\* A title with "machine learning", the anchor "platform" and the exclusion
\* term "infra" was classified and is not wide.
C5_Witness ==
    /\ WideReturned
    /\ Contains("machine learning", lower(cTitle))
    /\ Contains("platform", lower(cTitle))
    /\ Contains("infra", lower(cTitle))
    /\ cWide = FALSE

-----------------------------------------------------------------------------
(* The claims about a run, under Spec. *)

\* The dedup key as the claims state it.
KeyOf(j) == <<lower(j.title), lower(j.company)>>

\* C1: after search_all no two records of the result list share the dedup key
\* (lower-cased title, lower-cased company); the same holds of `seen` all
\* through the merge.
C1_ResultKeysUnique ==
    /\ \A i, j \in 1..Len(results) : i # j => KeyOf(results[i]) # KeyOf(results[j])
    /\ \A i, j \in 1..Len(seen) : i # j => KeyOf(seen[i].job) # KeyOf(seen[j].job)
    /\ pc \in {"report", "done"} =>
          { KeyOf(results[i]) : i \in 1..Len(results) }
              = { KeyOf(all_jobs[i]) : i \in 1..Len(all_jobs) }

\* The run ended after two postings with the same key and different titles
\* were fetched, and one record stands for them.
C1_Witness ==
    /\ pc = "done"
    /\ Len(results) = 1
    /\ \E i, j \in 1..Len(all_jobs) :
          /\ i < j
          /\ all_jobs[i].title # all_jobs[j].title
          /\ KeyOf(all_jobs[i]) = KeyOf(all_jobs[j])

\* Every GET of a run, in the configured order.
Configured ==
    [i \in 1..Len(greenhouse_companies) |-> <<"Greenhouse", greenhouse_companies[i]>>]
        \o [i \in 1..Len(lever_companies) |-> <<"Lever", lever_companies[i]>>]

IsPrefix(a, b) == Len(a) <= Len(b) /\ a = SubSeq(b, 1, Len(a))

Failed(resp) == resp.kind \in {"fault", "status", "badjson"}

C3_State ==
    /\ IsPrefix(requests, Configured)
    /\ Len(requests) = (gi - 1) + (li - 1)
    /\ pc \in {"merge", "report", "done"} => requests = Configured
    /\ Failed(lastResp) => lastAdded = <<>>

C3_Step ==
    /\ IsPrefix(ghJobs, ghJobs')
    /\ IsPrefix(lvJobs, lvJobs')
    /\ requests' # requests =>
          /\ Len(requests') = Len(requests) + 1
          /\ Failed(lastResp') => ghJobs' = ghJobs /\ lvJobs' = lvJobs
    /\ pc' = "merge" => all_jobs' = ghJobs \o lvJobs

\* C3: whatever each company's fetch gives, every configured company is asked
\* exactly once, Greenhouse companies first, each list in its configured order;
\* a company whose fetch failed (fault, status other than 200, body that is
\* not JSON) adds nothing, and what was collected before is kept.
C3_FailureNeverAbortsBatch == []C3_State /\ [][C3_Step]_vars

\* Every company was asked; the first company's postings were collected and
\* the last company's fetch failed after them.
C3_Witness ==
    /\ pc = "lever"
    /\ li > Len(lever_companies)
    /\ Failed(lastResp)
    /\ Len(ghJobs) > 0
    /\ ghJobs[1].company = title(greenhouse_companies[1])
    /\ requests = Configured

\* A GET was issued and another one follows.
BetweenTwoGets ==
    /\ requests # <<>>
    /\ pc = "greenhouse" \/ (pc = "lever" /\ li <= Len(lever_companies))

\* C6: between two consecutive GET calls of a run the process sleeps the
\* 1.5 time units, whatever the earlier call gave.
C6_PausedBetweenGets == BetweenTwoGets => paused >= SleepTenths

\* The title of a posting of either API, Null when the posting has none.
TitleOf(post) ==
    IF "title" \in DOMAIN post THEN post.title
    ELSE IF "text" \in DOMAIN post THEN post.text
    ELSE Null

\* The posting has no title, an empty one, or one that is no string.
BadTitle(post) == TitleOf(post).t # "str" \/ TitleOf(post).v = ""

Matches(t) == Classify(t).strict \/ Classify(t).wide

\* The titles of the postings of `posts` that are well formed and match a tier.
RECURSIVE MatchingTitles(_, _)
MatchingTitles(posts, k) ==
    IF k > Len(posts) THEN <<>>
    ELSE (IF ~BadTitle(posts[k]) /\ Matches(TitleOf(posts[k]).v)
          THEN <<TitleOf(posts[k]).v>> ELSE <<>>) \o MatchingTitles(posts, k + 1)

\* C7: a posting whose title is missing, empty or malformed is skipped alone
\* and silently: no error is printed for the company, and every other posting
\* of the response that matches a tier is collected.
C7_BadPostingSkippedAlone ==
    (lastResp.kind = "ok" /\ \E k \in 1..Len(lastResp.posts) : BadTitle(lastResp.posts[k]))
        => /\ \A k \in 1..Len(lastLog) : lastLog[k] # "error"
           /\ [k \in 1..Len(lastAdded) |-> lastAdded[k].title]
                 = MatchingTitles(lastResp.posts, 1)

InSeq(sq) == { sq[i] : i \in 1..Len(sq) }

\* The postings fetched so far, in fetch order.
Fetched == IF pc \in {"greenhouse", "lever"} THEN ghJobs \o lvJobs ELSE all_jobs

\* Every posting record the run holds.
Collected == InSeq(Fetched) \cup InSeq(Values(seen)) \cup InSeq(results)

\* C8: every collected posting has a non-empty title that satisfies a
\* predicate; its tier is strict exactly when the strict predicate holds and
\* wide exactly when only the wide one holds.
C8_TierFollowsPredicates ==
    \A j \in Collected :
        LET strict == Classify(j.title).strict
            wide == Classify(j.title).wide
        IN /\ j.title # ""
           /\ strict \/ wide
           /\ j.tier = "strict" <=> strict
           /\ j.tier = "wide" <=> (~strict /\ wide)

\* A response held a title that satisfies neither predicate and a title that
\* satisfies both; only the second was collected, as strict.
C8_Witness ==
    /\ lastResp.kind = "ok"
    /\ \E k \in 1..Len(lastResp.posts) :
          ~BadTitle(lastResp.posts[k]) /\ ~Matches(TitleOf(lastResp.posts[k]).v)
    /\ Len(lastAdded) = 1
    /\ Classify(lastAdded[1].title).strict
    /\ Classify(lastAdded[1].title).wide
    /\ lastAdded[1].tier = "strict"

\* The first element of the sequence sq that has the key of j.
FirstWithKey(sq, j) ==
    LET key == KeyOf(j)
    IN sq[CHOOSE i \in 1..Len(sq) :
              /\ KeyOf(sq[i]) = key
              /\ \A k \in 1..(i - 1) : KeyOf(sq[k]) # key]

\* C10: in a run, postings with the same dedup key carry the same tier, the
\* replace branch of the merge is never taken, and the survivor of every key
\* is the first posting fetched with it.
C10_ReplaceNeverTaken ==
    /\ \A i, j \in 1..Len(Fetched) :
          (i < j /\ Fetched[i].tier # Fetched[j].tier)
              => KeyOf(Fetched[i]) # KeyOf(Fetched[j])
    /\ replaced = 0
    /\ \A i \in 1..Len(seen) : seen[i].job = FirstWithKey(all_jobs, seen[i].job)
    /\ \A i \in 1..Len(results) : results[i] = FirstWithKey(all_jobs, results[i])

\* The run ended after two postings with the same key and different titles
\* were merged: the first one is the result.
C10_Witness ==
    /\ pc = "done"
    /\ Len(all_jobs) = 2
    /\ all_jobs[1].title # all_jobs[2].title
    /\ KeyOf(all_jobs[1]) = KeyOf(all_jobs[2])
    /\ results = <<all_jobs[1]>>

-----------------------------------------------------------------------------
(* The claims about the merge and the report, under MergeSpec. *)

Merged == pc \in {"report", "done"}

\* The postings of all_jobs with the key of j, in order.
WithKey(j) == SelectSeq(all_jobs, LAMBDA x : KeyOf(x) = KeyOf(j))

\* The postings of sq whose tier is strict, in order.
StrictOnes(sq) == SelectSeq(sq, LAMBDA x : x.tier = "strict")

\* The record claim C2 says survives for the key of j.
C2_Survivor(j) ==
    IF StrictOnes(WithKey(j)) # <<>> THEN Head(StrictOnes(WithKey(j))) ELSE Head(WithKey(j))

\* C2: for any list of postings and every dedup key, the merge keeps the
\* first strict posting with the key if there is one and the first posting
\* with the key otherwise; two postings with the same title and company that
\* differ only in tier leave, in either order, a strict survivor.
C2_MergeKeepsFirstStrictElseFirst ==
    Merged =>
        /\ \A i \in 1..Len(all_jobs) :
              \E r \in 1..Len(results) :
                  /\ KeyOf(results[r]) = KeyOf(all_jobs[i])
                  /\ results[r] = C2_Survivor(all_jobs[i])
        /\ \A r \in 1..Len(results) : \E i \in 1..Len(all_jobs) : results[r] = all_jobs[i]
        /\ (/\ Len(all_jobs) = 2
            /\ all_jobs[1].tier # all_jobs[2].tier
            /\ [all_jobs[1] EXCEPT !.tier = "strict"] = [all_jobs[2] EXCEPT !.tier = "strict"])
              => Len(results) = 1 /\ results[1].tier = "strict"

\* A wide posting was followed by two strict postings with its key under
\* titles in different case: the first strict one survived.
C2_Witness ==
    /\ Merged
    /\ Len(all_jobs) = 3
    /\ all_jobs[1].tier = "wide"
    /\ all_jobs[2].tier = "strict"
    /\ all_jobs[3].tier = "strict"
    /\ KeyOf(all_jobs[1]) = KeyOf(all_jobs[2])
    /\ KeyOf(all_jobs[2]) = KeyOf(all_jobs[3])
    /\ all_jobs[2].title # all_jobs[3].title
    /\ results = <<all_jobs[2]>>
    /\ replaced = 1

\* The keys of the first n postings of all_jobs, each at its first occurrence.
RECURSIVE FirstKeys(_, _)
FirstKeys(n, k) ==
    IF k > n THEN <<>>
    ELSE (IF \E m \in 1..(k - 1) : KeyOf(all_jobs[m]) = KeyOf(all_jobs[k])
          THEN <<>> ELSE <<KeyOf(all_jobs[k])>>) \o FirstKeys(n, k + 1)

\* The display names of the companies that have a posting of `tier` in results.
CompaniesOf(tier) == { results[i].company : i \in { k \in 1..Len(results) : results[k].tier = tier } }

\* The titles of the postings of `tier` and `company` in results, in order.
TitlesOf(tier, company) ==
    LET kept == SelectSeq(results, LAMBDA x : x.tier = tier /\ x.company = company)
    IN [i \in 1..Len(kept) |-> kept[i].title]

\* The sequences that list every element of the set S once.
Orderings(S) ==
    { f \in [1..Cardinality(S) -> S] : \A i, j \in 1..Cardinality(S) : i # j => f[i] # f[j] }

\* The header and title lines of a section, in order.
Outline(lines) == SelectSeq(lines, LAMBDA x : x.line \in {"company", "title"})

\* What the header and title lines of a section are when the groups come in
\* the order `ord`, each with its postings in the order of results.
RECURSIVE ExpectedOutline(_, _, _)
ExpectedOutline(tier, ord, k) ==
    IF k > Len(ord) THEN <<>>
    ELSE <<[line |-> "company", text |-> upper(ord[k])]>>
            \o [i \in 1..Len(TitlesOf(tier, ord[k])) |->
                    [line |-> "title", text |-> TitlesOf(tier, ord[k])[i]]]
            \o ExpectedOutline(tier, ord, k + 1)

C9_Section(tier, lines) ==
    IF CompaniesOf(tier) = {} THEN Outline(lines) = <<>>
    ELSE \E ord \in Orderings(CompaniesOf(tier)) :
            /\ \A i, j \in 1..Len(ord) : i < j => StrLess(ord[i], ord[j])
            /\ Outline(lines) = ExpectedOutline(tier, ord, 1)

\* C9: in each tier section the company groups come in the lexicographic
\* order of the display names and, inside a group, the postings in the order
\* of the result list; a record that replaced a wide one sits where the
\* replaced one sat, so the result list is in the order of first occurrence
\* of the keys.
C9_GroupsSortedPostingsInResultOrder ==
    /\ [i \in 1..Len(seen) |-> KeyOf(seen[i].job)] = FirstKeys(mi - 1, 1)
    /\ Merged => [i \in 1..Len(results) |-> KeyOf(results[i])] = FirstKeys(Len(all_jobs), 1)
    /\ pc = "done" =>
          /\ C9_Section("strict", report.strict)
          /\ C9_Section("wide", report.wide)

\* The report was rendered from a result list whose first record replaced a
\* wide one and belongs to the company that sorts last: the strict section
\* shows the other company's group first.
C9_Witness ==
    /\ pc = "done"
    /\ replaced = 1
    /\ Len(results) = 2
    /\ results[1].tier = "strict"
    /\ results[2].tier = "strict"
    /\ StrLess(results[2].company, results[1].company)
    /\ all_jobs[1].tier = "wide"
    /\ KeyOf(all_jobs[1]) = KeyOf(results[1])
    /\ Outline(report.strict)[1].text = upper(results[2].company)

=============================================================================
